---- MODULE Spec2Model ----
(***************************************************************************)
(* Model of package certreloader (reloader.go): a Reloader that loads an   *)
(* X.509 certificate / private key pair from two files, republishes it     *)
(* through an atomically stored pointer when the files change, and is      *)
(* driven by a time.Ticker until Stop closes the stop channel.             *)
(*                                                                         *)
(* Every goroutine is a process with a program counter in pc; one action   *)
(* is one atomic step of the code (a file read, a channel operation, a     *)
(* store to a field of the Reloader).                                      *)
(***************************************************************************)
EXTENDS Integers, Sequences, FiniteSets, TLC

\* Number of times the external rotator rewrites (or removes) a watched file.
MaxWrites == 2

\* Capacity of the channel time.NewTicker creates (ticker.C).
TickerBuf == 1

\* ---------------------------------------------------------------- values

\* A nil []byte (the zero value of Reloader.certPEM / keyPEM).
NilBytes == "nil"

\* A nil *tls.Certificate (the zero value of Reloader.cert).
NilPtr == 0

\* A nil error.
NoErr == "nil"

\* ioutil.ReadFile failing: the file is missing or unreadable.
NoFile == "ENOENT"

\* Contents a certificate file can have: empty, the certificate of rotation
\* 1 or 2, or bytes that are no certificate at all.
CertContents == {"", "cert1", "cert2", "junk"}

\* Contents a private key file can have: empty, or the key of rotation 1 or 2.
KeyContents == {"", "key1", "key2"}

\* The rotation a file content belongs to (0: none, the content is no PEM).
Rotation(b) ==
    CASE b \in {"cert1", "key1"} -> 1
      [] b \in {"cert2", "key2"} -> 2
      [] OTHER -> 0

ErrAbs == "filepath.Abs failed"
ErrReadCert == "unable to read certificate"
ErrReadKey == "unable to read private key"
ErrKeyPair == "tls: failed to parse or match key pair"

\* ---------------------------------------------------------------- processes

\* Goroutines that call reload(): the caller of New, and the reload loop.
Reloaders == {"new", "loop"}

\* Callers of Stop().
Stoppers == {"s1", "s2"}

\* Callers of Get().
Getters == {"g1", "g2"}

\* The value of got[g] before g's first Get() returned.
NoResult == -1

VARIABLES
    certFile,   \* contents of the file at certPath, or NoFile
    keyFile,    \* contents of the file at keyPath, or NoFile
    writes,     \* rewrites of the two files by the rotator so far
    r,          \* the Reloader: [certPEM, keyPEM, cert, chStop]
    heap,       \* the tls.Certificate objects allocated so far; a pointer is an index
    ticker,     \* "none" (not created), "running", "stopped"
    tick,       \* number of ticks buffered in ticker.C
    pc,         \* position of each goroutine
    l,          \* locals of reload(), per calling goroutine
    err,        \* value reload() returns, per calling goroutine
    entry,      \* history: r's certPEM, keyPEM, cert when the goroutine entered reload()
    newRet,     \* what New returned: [r, err], r in {"pending", "nil", "r"}
    logged,     \* the last error handed to log.Print by the reload loop
    got,        \* the pointer each getter's last Get() returned
    panicked    \* the process died of a runtime panic

vars == <<certFile, keyFile, writes, r, heap, ticker, tick, pc, l, err,
          entry, newRet, logged, got, panicked>>

\* ---------------------------------------------------------------- library

\* bytes.Equal: a nil slice and an empty slice are equal.
BytesOf(b) == IF b = NilBytes THEN "" ELSE b

BytesEqual(a, b) == BytesOf(a) = BytesOf(b)

\* tls.X509KeyPair succeeds iff both blocks parse and the certificate's
\* public key matches the private key.
X509KeyPairOK(c, k) == Rotation(c) # 0 /\ Rotation(c) = Rotation(k)

\* The tls.Certificate X509KeyPair builds.
X509KeyPair(c, k) == [cert |-> c, key |-> k]

\* The fields of the Reloader that reload() writes.
Accepted(rr) == [certPEM |-> rr.certPEM, keyPEM |-> rr.keyPEM, cert |-> rr.cert]

\* Zero values of reload()'s local variables.
NoLocals == [certPEM |-> NilBytes, keyPEM |-> NilBytes, cert |-> NilPtr]

\* ---------------------------------------------------------------- Init

Init ==
    /\ certFile \in CertContents \cup {NoFile}
    /\ keyFile \in KeyContents \cup {NoFile}
    /\ writes = 0
    /\ r = [certPEM |-> NilBytes, keyPEM |-> NilBytes, cert |-> NilPtr, chStop |-> "nil"]
    /\ heap = <<>>
    /\ ticker = "none"
    /\ tick = 0
    /\ pc = [p \in Reloaders \cup Stoppers \cup {"watcher"} |->
                CASE p = "new" -> "abs"
                  [] p \in Stoppers -> "idle"
                  [] OTHER -> "none"]
    /\ l = [p \in Reloaders |-> NoLocals]
    /\ err = [p \in Reloaders |-> NoErr]
    /\ entry = [p \in Reloaders |-> Accepted(r)]
    /\ newRet = [r |-> "pending", err |-> NoErr]
    /\ logged = NoErr
    /\ got = [g \in Getters |-> NoResult]
    /\ panicked = FALSE

\* ---------------------------------------------------------------- rotator

\* The external rotator rewrites or removes the certificate file.
WriteCert ==
    /\ ~panicked
    /\ writes < MaxWrites
    /\ \E c \in (CertContents \cup {NoFile}) \ {certFile} : certFile' = c
    /\ writes' = writes + 1
    /\ UNCHANGED <<keyFile, r, heap, ticker, tick, pc, l, err, entry, newRet,
                   logged, got, panicked>>

\* The external rotator rewrites or removes the private key file.
WriteKey ==
    /\ ~panicked
    /\ writes < MaxWrites
    /\ \E k \in (KeyContents \cup {NoFile}) \ {keyFile} : keyFile' = k
    /\ writes' = writes + 1
    /\ UNCHANGED <<certFile, r, heap, ticker, tick, pc, l, err, entry, newRet,
                   logged, got, panicked>>

\* ---------------------------------------------------------------- reload()

\* reload() returns e to its caller p.
Return(p, e) ==
    /\ err' = [err EXCEPT ![p] = e]
    /\ pc' = [pc EXCEPT ![p] = "ret"]

\* certPEM, err = ioutil.ReadFile(r.certPath)
ReadCert(p) ==
    /\ ~panicked
    /\ pc[p] = "readCert"
    /\ IF certFile = NoFile
       THEN /\ Return(p, ErrReadCert)
            /\ l' = l
       ELSE /\ l' = [l EXCEPT ![p].certPEM = certFile]
            /\ pc' = [pc EXCEPT ![p] = "readKey"]
            /\ err' = err
    /\ UNCHANGED <<certFile, keyFile, writes, r, heap, ticker, tick, entry,
                   newRet, logged, got, panicked>>


\* ReadKey reporting an unreadable key file with the certificate's message.
ReadKeyWrongMsg(p) ==
    /\ ~panicked
    /\ pc[p] = "readKey"
    /\ IF keyFile = NoFile
       THEN /\ Return(p, ErrReadCert)
            /\ l' = l
       ELSE /\ l' = [l EXCEPT ![p].keyPEM = keyFile]
            /\ pc' = [pc EXCEPT ![p] = "compare"]
            /\ err' = err
    /\ UNCHANGED <<certFile, keyFile, writes, r, heap, ticker, tick, entry,
                   newRet, logged, got, panicked>>

\* keyPEM, err = ioutil.ReadFile(r.keyPath)
ReadKey(p) ==
    /\ ~panicked
    /\ pc[p] = "readKey"
    /\ IF keyFile = NoFile
       THEN /\ Return(p, ErrReadKey)
            /\ l' = l
       ELSE /\ l' = [l EXCEPT ![p].keyPEM = keyFile]
            /\ pc' = [pc EXCEPT ![p] = "compare"]
            /\ err' = err
    /\ UNCHANGED <<certFile, keyFile, writes, r, heap, ticker, tick, entry,
                   newRet, logged, got, panicked>>

\* Unchanged with the two stored contents swapped in the comparison.
UnchangedSwapped(p) ==
    BytesEqual(l[p].certPEM, r.keyPEM) /\ BytesEqual(l[p].keyPEM, r.certPEM)


\* Unchanged taking one unchanged file for no change (|| for &&).
UnchangedEither(p) ==
    BytesEqual(l[p].certPEM, r.certPEM) \/ BytesEqual(l[p].keyPEM, r.keyPEM)

\* The change detector: both files read equal the last accepted contents.
Unchanged(p) ==
    BytesEqual(l[p].certPEM, r.certPEM) /\ BytesEqual(l[p].keyPEM, r.keyPEM)

\* if bytes.Equal(certPEM, r.certPEM) && bytes.Equal(keyPEM, r.keyPEM) { return nil }
Compare(p) ==
    /\ ~panicked
    /\ pc[p] = "compare"
    /\ IF Unchanged(p)
       THEN Return(p, NoErr)
       ELSE /\ pc' = [pc EXCEPT ![p] = "parse"]
            /\ err' = err
    /\ UNCHANGED <<certFile, keyFile, writes, r, heap, ticker, tick, l, entry,
                   newRet, logged, got, panicked>>

\* Parse clearing the active certificate when validation fails.
ParseClearOnError(p) ==
    /\ ~panicked
    /\ pc[p] = "parse"
    /\ IF X509KeyPairOK(l[p].certPEM, l[p].keyPEM)
       THEN /\ heap' = Append(heap, X509KeyPair(l[p].certPEM, l[p].keyPEM))
            /\ l' = [l EXCEPT ![p].cert = Len(heap) + 1]
            /\ pc' = [pc EXCEPT ![p] = "storeCertPEM"]
            /\ UNCHANGED <<err, r>>
       ELSE /\ Return(p, ErrKeyPair)
            /\ r' = [r EXCEPT !.cert = NilPtr]
            /\ UNCHANGED <<heap, l>>
    /\ UNCHANGED <<certFile, keyFile, writes, ticker, tick, entry,
                   newRet, logged, got, panicked>>

\* Parse recording the certificate contents read before validating them.
ParseStoreFirst(p) ==
    /\ ~panicked
    /\ pc[p] = "parse"
    /\ r' = [r EXCEPT !.certPEM = l[p].certPEM]
    /\ IF X509KeyPairOK(l[p].certPEM, l[p].keyPEM)
       THEN /\ heap' = Append(heap, X509KeyPair(l[p].certPEM, l[p].keyPEM))
            /\ l' = [l EXCEPT ![p].cert = Len(heap) + 1]
            /\ pc' = [pc EXCEPT ![p] = "storeCertPEM"]
            /\ err' = err
       ELSE /\ Return(p, ErrKeyPair)
            /\ UNCHANGED <<heap, l>>
    /\ UNCHANGED <<certFile, keyFile, writes, ticker, tick, entry,
                   newRet, logged, got, panicked>>

\* Parse ignoring the error X509KeyPair returns.
ParseIgnoreErr(p) ==
    /\ ~panicked
    /\ pc[p] = "parse"
    /\ heap' = Append(heap, X509KeyPair(l[p].certPEM, l[p].keyPEM))
    /\ l' = [l EXCEPT ![p].cert = Len(heap) + 1]
    /\ pc' = [pc EXCEPT ![p] = "storeCertPEM"]
    /\ err' = err
    /\ UNCHANGED <<certFile, keyFile, writes, r, ticker, tick, entry,
                   newRet, logged, got, panicked>>

\* cert, err = tls.X509KeyPair(certPEM, keyPEM); the local cert escapes to the
\* heap, its address is Len(heap) + 1.
Parse(p) ==
    /\ ~panicked
    /\ pc[p] = "parse"
    /\ IF X509KeyPairOK(l[p].certPEM, l[p].keyPEM)
       THEN /\ heap' = Append(heap, X509KeyPair(l[p].certPEM, l[p].keyPEM))
            /\ l' = [l EXCEPT ![p].cert = Len(heap) + 1]
            /\ pc' = [pc EXCEPT ![p] = "storeCertPEM"]
            /\ err' = err
       ELSE /\ Return(p, ErrKeyPair)
            /\ UNCHANGED <<heap, l>>
    /\ UNCHANGED <<certFile, keyFile, writes, r, ticker, tick, entry,
                   newRet, logged, got, panicked>>

\* r.certPEM = certPEM
StoreCertPEM(p) ==
    /\ ~panicked
    /\ pc[p] = "storeCertPEM"
    /\ r' = [r EXCEPT !.certPEM = l[p].certPEM]
    /\ pc' = [pc EXCEPT ![p] = "storeKeyPEM"]
    /\ UNCHANGED <<certFile, keyFile, writes, heap, ticker, tick, l, err, entry,
                   newRet, logged, got, panicked>>


\* StoreKeyPEM recording the certificate contents as the key contents.
StoreKeyPEMTypo(p) ==
    /\ ~panicked
    /\ pc[p] = "storeKeyPEM"
    /\ r' = [r EXCEPT !.keyPEM = l[p].certPEM]
    /\ pc' = [pc EXCEPT ![p] = "storePointer"]
    /\ UNCHANGED <<certFile, keyFile, writes, heap, ticker, tick, l, err, entry,
                   newRet, logged, got, panicked>>

\* r.keyPEM = keyPEM
StoreKeyPEM(p) ==
    /\ ~panicked
    /\ pc[p] = "storeKeyPEM"
    /\ r' = [r EXCEPT !.keyPEM = l[p].keyPEM]
    /\ pc' = [pc EXCEPT ![p] = "storePointer"]
    /\ UNCHANGED <<certFile, keyFile, writes, heap, ticker, tick, l, err, entry,
                   newRet, logged, got, panicked>>

\* Publish overwriting the Certificate field of the active object in place
\* instead of swapping the pointer.
PublishInPlace(p) ==
    IF r.cert = NilPtr
    THEN /\ r' = [r EXCEPT !.cert = l[p].cert]
         /\ heap' = heap
    ELSE /\ r' = r
         /\ heap' = [heap EXCEPT ![r.cert].cert = heap[l[p].cert].cert]

\* atomic.StorePointer(&r.cert, &cert): the new object replaces the old one
\* in one store; the old object is left as it was.
Publish(p) ==
    /\ r' = [r EXCEPT !.cert = l[p].cert]
    /\ heap' = heap

\* atomic.StorePointer(...); return nil
StorePointer(p) ==
    /\ ~panicked
    /\ pc[p] = "storePointer"
    /\ Publish(p)
    /\ Return(p, NoErr)
    /\ UNCHANGED <<certFile, keyFile, writes, ticker, tick, l, entry,
                   newRet, logged, got, panicked>>

\* ---------------------------------------------------------------- New


\* NewAbs starting the ticker and the reload loop before the first reload.
NewAbsEarlyLoop ==
    /\ ~panicked
    /\ pc["new"] = "abs"
    /\ \E ok \in BOOLEAN :
         IF ok
         THEN /\ pc' = [pc EXCEPT !["new"] = "readCert", !["loop"] = "wait"]
              /\ ticker' = "running"
              /\ entry' = [entry EXCEPT !["new"] = Accepted(r)]
              /\ newRet' = newRet
         ELSE /\ pc' = [pc EXCEPT !["new"] = "done"]
              /\ newRet' = [r |-> "nil", err |-> ErrAbs]
              /\ UNCHANGED <<entry, ticker>>
    /\ UNCHANGED <<certFile, keyFile, writes, r, heap, tick, l, err,
                   logged, got, panicked>>

\* filepath.Abs of the two paths; on failure New returns nil and the error.
\* On success New builds r and calls r.reload().
NewAbs ==
    /\ ~panicked
    /\ pc["new"] = "abs"
    /\ \E ok \in BOOLEAN :
         IF ok
         THEN /\ pc' = [pc EXCEPT !["new"] = "readCert"]
              /\ entry' = [entry EXCEPT !["new"] = Accepted(r)]
              /\ newRet' = newRet
         ELSE /\ pc' = [pc EXCEPT !["new"] = "done"]
              /\ newRet' = [r |-> "nil", err |-> ErrAbs]
              /\ entry' = entry
    /\ UNCHANGED <<certFile, keyFile, writes, r, heap, ticker, tick, l, err,
                   logged, got, panicked>>

\* NewFinish creating the ticker and the goroutines before looking at err.
NewFinishEager ==
    /\ ~panicked
    /\ pc["new"] = "ret"
    /\ ticker' = "running"
    /\ r' = [r EXCEPT !.chStop = "open"]
    /\ IF err["new"] # NoErr
       THEN /\ newRet' = [r |-> "nil", err |-> err["new"]]
            /\ pc' = [pc EXCEPT !["new"] = "done", !["watcher"] = "wait",
                                !["loop"] = "wait"]
       ELSE /\ newRet' = [r |-> "r", err |-> NoErr]
            /\ pc' = [pc EXCEPT !["new"] = "done", !["watcher"] = "wait",
                                !["loop"] = "wait"]
    /\ l' = [l EXCEPT !["new"] = NoLocals]
    /\ entry' = [entry EXCEPT !["new"] = Accepted(r)]
    /\ UNCHANGED <<certFile, keyFile, writes, heap, tick, err,
                   logged, got, panicked>>

\* After r.reload() returned: return nil, err on failure; otherwise create
\* the ticker, the stop channel and the two goroutines, and return r.
NewFinish ==
    /\ ~panicked
    /\ pc["new"] = "ret"
    /\ IF err["new"] # NoErr
       THEN /\ newRet' = [r |-> "nil", err |-> err["new"]]
            /\ pc' = [pc EXCEPT !["new"] = "done"]
            /\ UNCHANGED <<r, ticker>>
       ELSE /\ newRet' = [r |-> "r", err |-> NoErr]
            /\ ticker' = "running"
            /\ r' = [r EXCEPT !.chStop = "open"]
            /\ pc' = [pc EXCEPT !["new"] = "done", !["watcher"] = "wait",
                                !["loop"] = "wait"]
    /\ l' = [l EXCEPT !["new"] = NoLocals]
    /\ entry' = [entry EXCEPT !["new"] = Accepted(r)]
    /\ UNCHANGED <<certFile, keyFile, writes, heap, tick, err,
                   logged, got, panicked>>

\* ---------------------------------------------------------------- ticker

\* The runtime sends a tick on ticker.C without blocking; the tick is dropped
\* when the channel is full.
TickerFire ==
    /\ ~panicked
    /\ ticker = "running"
    /\ tick' = IF tick < TickerBuf THEN tick + 1 ELSE tick
    /\ UNCHANGED <<certFile, keyFile, writes, r, heap, ticker, pc, l, err,
                   entry, newRet, logged, got, panicked>>


\* Watcher returning without stopping the ticker.
WatcherNoStop ==
    /\ ~panicked
    /\ pc["watcher"] = "wait"
    /\ r.chStop = "closed"
    /\ pc' = [pc EXCEPT !["watcher"] = "done"]
    /\ UNCHANGED <<certFile, keyFile, writes, r, heap, ticker, tick, l, err, entry,
                   newRet, logged, got, panicked>>

\* go func() { <-chStop; ticker.Stop() }()
Watcher ==
    /\ ~panicked
    /\ pc["watcher"] = "wait"
    /\ r.chStop = "closed"
    /\ ticker' = "stopped"
    /\ pc' = [pc EXCEPT !["watcher"] = "done"]
    /\ UNCHANGED <<certFile, keyFile, writes, r, heap, tick, l, err, entry,
                   newRet, logged, got, panicked>>

\* ---------------------------------------------------------------- reload loop

\* for { <-ch; r.reload() ... : receive a tick and enter reload().
LoopRecv ==
    /\ ~panicked
    /\ pc["loop"] = "wait"
    /\ tick > 0
    /\ tick' = tick - 1
    /\ pc' = [pc EXCEPT !["loop"] = "readCert"]
    /\ entry' = [entry EXCEPT !["loop"] = Accepted(r)]
    /\ UNCHANGED <<certFile, keyFile, writes, r, heap, ticker, l, err,
                   newRet, logged, got, panicked>>

\* LoopLog leaving the loop after logging an error.
LoopLogReturn ==
    /\ ~panicked
    /\ pc["loop"] = "ret"
    /\ logged' = IF err["loop"] # NoErr THEN err["loop"] ELSE logged
    /\ pc' = [pc EXCEPT !["loop"] = IF err["loop"] # NoErr THEN "done" ELSE "wait"]
    /\ l' = [l EXCEPT !["loop"] = NoLocals]
    /\ err' = [err EXCEPT !["loop"] = NoErr]
    /\ entry' = [entry EXCEPT !["loop"] = Accepted(r)]
    /\ UNCHANGED <<certFile, keyFile, writes, r, heap, ticker, tick,
                   newRet, got, panicked>>


\* LoopLog printing only the first error it sees.
LoopLogFirstOnly ==
    /\ ~panicked
    /\ pc["loop"] = "ret"
    /\ logged' = IF err["loop"] # NoErr /\ logged = NoErr THEN err["loop"] ELSE logged
    /\ pc' = [pc EXCEPT !["loop"] = "wait"]
    /\ l' = [l EXCEPT !["loop"] = NoLocals]
    /\ err' = [err EXCEPT !["loop"] = NoErr]
    /\ entry' = [entry EXCEPT !["loop"] = Accepted(r)]
    /\ UNCHANGED <<certFile, keyFile, writes, r, heap, ticker, tick,
                   newRet, got, panicked>>

\* if err := r.reload(); err != nil { log.Print(err) } and back to <-ch.
LoopLog ==
    /\ ~panicked
    /\ pc["loop"] = "ret"
    /\ logged' = IF err["loop"] # NoErr THEN err["loop"] ELSE logged
    /\ pc' = [pc EXCEPT !["loop"] = "wait"]
    /\ l' = [l EXCEPT !["loop"] = NoLocals]
    /\ err' = [err EXCEPT !["loop"] = NoErr]
    /\ entry' = [entry EXCEPT !["loop"] = Accepted(r)]
    /\ UNCHANGED <<certFile, keyFile, writes, r, heap, ticker, tick,
                   newRet, got, panicked>>

\* ---------------------------------------------------------------- Stop

\* select { case <-r.chStop: (return)  default: (go on to close) }
StopSelect(s) ==
    /\ ~panicked
    /\ newRet.r = "r"
    /\ pc[s] \in {"idle", "returned"}
    /\ pc' = [pc EXCEPT ![s] = IF r.chStop = "closed" THEN "returned" ELSE "close"]
    /\ UNCHANGED <<certFile, keyFile, writes, r, heap, ticker, tick, l, err,
                   entry, newRet, logged, got, panicked>>

\* close(r.chStop): closing a closed channel panics.
StopClose(s) ==
    /\ ~panicked
    /\ pc[s] = "close"
    /\ IF r.chStop = "closed"
       THEN /\ panicked' = TRUE
            /\ UNCHANGED <<r, pc>>
       ELSE /\ r' = [r EXCEPT !.chStop = "closed"]
            /\ pc' = [pc EXCEPT ![s] = "returned"]
            /\ panicked' = panicked
    /\ UNCHANGED <<certFile, keyFile, writes, heap, ticker, tick, l, err,
                   entry, newRet, logged, got>>

\* ---------------------------------------------------------------- Get


\* Get taking a lock that reload() holds from its first store to its last.
GetLocked(g) ==
    /\ ~panicked
    /\ newRet.r = "r"
    /\ \A p \in Reloaders : pc[p] \notin {"storeKeyPEM", "storePointer"}
    /\ got' = [got EXCEPT ![g] = r.cert]
    /\ UNCHANGED <<certFile, keyFile, writes, r, heap, ticker, tick, pc, l, err,
                   entry, newRet, logged, panicked>>

\* return (*tls.Certificate)(atomic.LoadPointer(&r.cert))
Get(g) ==
    /\ ~panicked
    /\ newRet.r = "r"
    /\ got' = [got EXCEPT ![g] = r.cert]
    /\ UNCHANGED <<certFile, keyFile, writes, r, heap, ticker, tick, pc, l, err,
                   entry, newRet, logged, panicked>>

\* ---------------------------------------------------------------- Next

\* Every step but those of the callers of Get().
NextNoGet ==
    \/ WriteCert
    \/ WriteKey
    \/ NewAbs
    \/ NewFinish
    \/ \E p \in Reloaders : ReadCert(p)
    \/ \E p \in Reloaders : ReadKey(p)
    \/ \E p \in Reloaders : Compare(p)
    \/ \E p \in Reloaders : Parse(p)
    \/ \E p \in Reloaders : StoreCertPEM(p)
    \/ \E p \in Reloaders : StoreKeyPEM(p)
    \/ \E p \in Reloaders : StorePointer(p)
    \/ TickerFire
    \/ Watcher
    \/ LoopRecv
    \/ LoopLog
    \/ \E s \in Stoppers : StopSelect(s)
    \/ \E s \in Stoppers : StopClose(s)

Next ==
    \/ NextNoGet
    \/ \E g \in Getters : Get(g)

Spec == Init /\ [][Next]_vars

\* Fairness the scheduling guarantees while the process lives: a running
\* ticker keeps firing, and the reload loop goroutine keeps being scheduled.
LoopStep ==
    \/ LoopRecv
    \/ LoopLog
    \/ ReadCert("loop")
    \/ ReadKey("loop")
    \/ Compare("loop")
    \/ Parse("loop")
    \/ StoreCertPEM("loop")
    \/ StoreKeyPEM("loop")
    \/ StorePointer("loop")

\* Get() only writes got, which no other step reads: the progress of the
\* loop is studied without the callers of Get().
FairSpec == Init /\ [][NextNoGet]_vars /\ WF_vars(TickerFire) /\ WF_vars(LoopStep)

\* FairSpec with the stop watcher goroutine scheduled as well.
FairStopSpec == FairSpec /\ WF_vars(Watcher)

\* ---------------------------------------------------------------- properties

\* Positions of a goroutine inside reload() after validation succeeded.
PublishPcs == {"storeCertPEM", "storeKeyPEM", "storePointer"}

\* The object at pointer q is a whole certificate/key pair of one rotation.
Complete(h, q) ==
    /\ q \in 1..Len(h)
    /\ Rotation(h[q].cert) # 0
    /\ Rotation(h[q].cert) = Rotation(h[q].key)

\* reload() called by p read both files.
ReadBoth(p) == l[p].certPEM # NilBytes /\ l[p].keyPEM # NilBytes

\* C1 (no tearing): every pointer a Get() returned is nil (nothing published
\* yet) or designates a whole certificate+key object, which stays as it was
\* when it was returned; and a Get() that runs while a reload is publishing
\* returns the object active before the publish or the one being installed.
C1_NoTearing ==
    [][\A g \in Getters :
         /\ got'[g] \notin {NoResult, NilPtr} => Complete(heap', got'[g])
         /\ (got[g] \notin {NoResult, NilPtr} /\ got'[g] = got[g])
               => heap'[got[g]] = heap[got[g]]
         /\ \A p \in Reloaders :
               (got'[g] # got[g] /\ (pc[p] \in PublishPcs \/ pc'[p] \in PublishPcs))
                  => got'[g] \in {entry[p].cert, l[p].cert}]_vars

\* C1 witness: around one publish of the loop, one getter holds the object
\* that was active before it and the other the object it installed.
C1_Witness ==
    /\ pc["loop"] = "ret"
    /\ l["loop"].cert # NilPtr
    /\ entry["loop"].cert # NilPtr
    /\ got["g1"] = entry["loop"].cert
    /\ got["g2"] = l["loop"].cert
    /\ r.cert = l["loop"].cert

\* C2 (failure isolation): when a scheduled attempt on a store with an active
\* pair read both files and the contents read fail key-pair validation, then
\* at the end of the attempt the active pointer is the one from before the
\* attempt and the error returned and logged is the validation error.
C2_FailureIsolation ==
    [][(/\ pc["loop"] = "ret"
        /\ pc'["loop"] = "wait"
        /\ entry["loop"].cert # NilPtr
        /\ ReadBoth("loop")
        /\ ~X509KeyPairOK(l["loop"].certPEM, l["loop"].keyPEM))
          => /\ err["loop"] = ErrKeyPair
             /\ logged' = ErrKeyPair
             /\ r.cert = entry["loop"].cert
             /\ r'.cert = entry["loop"].cert
             /\ heap'[r'.cert] = heap[entry["loop"].cert]]_vars

\* C2 witness: the loop has logged a validation error for a certificate file
\* that was overwritten with invalid content while the key file was left alone.
C2_Witness ==
    /\ pc["loop"] = "wait"
    /\ logged = ErrKeyPair
    /\ r.cert # NilPtr
    /\ certFile = "junk"
    /\ keyFile = r.keyPEM
    /\ writes = 1

\* C3 (never-null active certificate), as claimed: once New has returned a
\* non-nil Reloader, the pointer Get() loads is never nil.
C3_NeverNil == newRet.r = "r" => r.cert # NilPtr

\* C4 (Stop idempotence), as claimed: no interleaving of Stop() callers
\* panics, and a caller inside Stop() can always take its next step.
C4_StopNeverPanics ==
    /\ ~panicked
    /\ \A s \in Stoppers : pc[s] = "close" => ENABLED StopClose(s)

\* C5 (Stop finality), as claimed: once a call to Stop() has returned, the
\* loop starts no reload attempt and the active pointer no longer changes.
C5_StopFinal ==
    [][(\E s \in Stoppers : pc[s] = "returned")
          => /\ ~(pc["loop"] = "wait" /\ pc'["loop"] = "readCert")
             /\ r'.cert = r.cert]_vars

\* C6 (construction failure): when the first load (or the path resolution)
\* fails, New returns nil and a non-nil error, and neither the ticker, the stop
\* channel, the stop watcher nor the reload loop has been created.
C6_ConstructionFailure ==
    /\ (pc["new"] = "done" /\ err["new"] # NoErr) => newRet.r = "nil"
    /\ newRet.r = "nil" =>
          /\ newRet.err # NoErr
          /\ ticker = "none"
          /\ tick = 0
          /\ r.chStop = "nil"
          /\ pc["watcher"] = "none"
          /\ pc["loop"] = "none"

\* C6 witness: New has returned nil because the certificate file is missing.
C6_Witness ==
    /\ newRet.r = "nil"
    /\ newRet.err = ErrReadCert
    /\ pc["new"] = "done"

\* C7 (idempotent no-op): a scheduled attempt that read certificate and key
\* contents both equal to the last accepted ones returns nil without parsing
\* (no object allocated) and leaves the last accepted contents and the active
\* pointer as they were on entry.
C7_NoOp ==
    (/\ pc["loop"] = "ret"
     /\ ReadBoth("loop")
     /\ BytesEqual(l["loop"].certPEM, entry["loop"].certPEM)
     /\ BytesEqual(l["loop"].keyPEM, entry["loop"].keyPEM))
       => /\ err["loop"] = NoErr
          /\ l["loop"].cert = NilPtr
          /\ r.cert = entry["loop"].cert
          /\ r.certPEM = entry["loop"].certPEM
          /\ r.keyPEM = entry["loop"].keyPEM

\* C7 witness: the loop ended an attempt on unchanged files of an active pair.
C7_Witness ==
    /\ pc["loop"] = "ret"
    /\ ReadBoth("loop")
    /\ r.cert # NilPtr
    /\ l["loop"].certPEM = r.certPEM
    /\ l["loop"].keyPEM = r.keyPEM
    /\ l["loop"].cert = NilPtr
    /\ err["loop"] = NoErr

\* C8 (state unchanged on failure): when reload() returns an error, whatever
\* the failing step, the last accepted certificate and key contents and the
\* active pointer are those of its entry; and no step of reload() touches the
\* stop channel.
C8_FailedReloadFrame ==
    [][/\ \A p \in Reloaders :
            (pc'[p] = "ret" /\ err'[p] # NoErr)
               => /\ r'.certPEM = entry'[p].certPEM
                  /\ r'.keyPEM = entry'[p].keyPEM
                  /\ r'.cert = entry'[p].cert
       /\ (\E p \in Reloaders :
              pc[p] \in {"readCert", "readKey", "compare", "parse"} \cup PublishPcs
              /\ pc'[p] # pc[p])
            => r'.chStop = r.chStop]_vars

\* C8 witness: the loop returned a read error for the key file on a store
\* with an active pair whose certificate file was rewritten.
C8_Witness ==
    /\ pc["loop"] = "ret"
    /\ err["loop"] = ErrReadKey
    /\ r.cert # NilPtr
    /\ l["loop"].certPEM # r.certPEM

\* C9 (no cross-rotation pairing): every object ever built by a reload, and
\* so every object Get() can return, pairs a certificate and a key of the same
\* rotation, however the rotator's writes interleave with the two reads.
C9_NoCrossRotation ==
    /\ \A i \in 1..Len(heap) : Rotation(heap[i].cert) = Rotation(heap[i].key)
    /\ r.cert # NilPtr => Complete(heap, r.cert)

\* C9 witness: in the middle of a rotation the loop read the certificate of
\* one rotation and the key of the other, and rejected them.
C9_Witness ==
    /\ pc["loop"] = "ret"
    /\ err["loop"] = ErrKeyPair
    /\ r.cert # NilPtr
    /\ Rotation(l["loop"].certPEM) = 2
    /\ Rotation(l["loop"].keyPEM) = 1
    /\ r.certPEM = "cert1"

\* The files hold the valid pair <<c, k>>, New returned the Reloader and
\* Stop has not closed the stop channel.
RunningWith(c, k) ==
    /\ certFile = c
    /\ keyFile = k
    /\ newRet.r = "r"
    /\ r.chStop = "open"

\* C10 (rotation is eventually picked up): if from some point on the files
\* hold one valid pair and the store keeps running, then from some point on
\* the active object is the one built from that pair.
C10_EventuallyPickedUp ==
    \A c \in {"cert1", "cert2"} :
       LET k == IF c = "cert1" THEN "key1" ELSE "key2" IN
       <>[]RunningWith(c, k)
          => <>[](r.cert # NilPtr /\ heap[r.cert] = X509KeyPair(c, k))

\* C10 witness: the store runs, the active pair is that of rotation 1, both
\* files were overwritten with the pair of rotation 2, and it was published.
C10_Witness ==
    /\ RunningWith("cert2", "key2")
    /\ writes = 2
    /\ Len(heap) = 2
    /\ heap[1] = X509KeyPair("cert1", "key1")
    /\ r.cert = 2
    /\ heap[2] = X509KeyPair("cert2", "key2")

\* C11 (Get() never blocks): in every state in which a caller holds the
\* Reloader, wherever a reload attempt stands, each Get() can take its one
\* step.
C11_GetNeverBlocks ==
    (newRet.r = "r" /\ ~panicked) => \A g \in Getters : ENABLED Get(g)

\* C11 witness: a Get() returned the still active pointer while the loop
\* stood between the store of the new contents and the store of the pointer.
C11_Witness ==
    /\ pc["loop"] = "storePointer"
    /\ r.cert # NilPtr
    /\ r.certPEM # heap[r.cert].cert
    /\ got["g1"] = r.cert
    /\ got["g2"] = NoResult

\* C12 (the scheduler terminates on stop), as claimed: once the stop channel
\* is closed the reload loop goroutine eventually exits.
C12_LoopExits == (r.chStop = "closed") ~> (pc["loop"] = "done" \/ panicked)

\* C13 (indivisible publish), as claimed: in every reachable state the
\* active object is the one built from the stored last accepted contents.
C13_Indivisible ==
    IF r.cert = NilPtr
    THEN r.certPEM = NilBytes /\ r.keyPEM = NilBytes
    ELSE heap[r.cert] = X509KeyPair(r.certPEM, r.keyPEM)

\* C13 amended: the same, in every state in which no reload stands between
\* its first store and its store of the pointer.
C13_IndivisibleAtRest ==
    (\A p \in Reloaders : pc[p] \notin {"storeKeyPEM", "storePointer"})
       => C13_Indivisible

\* C13 witness: the loop has finished publishing a second pair.
C13_Witness ==
    /\ pc["loop"] = "ret"
    /\ l["loop"].cert = 2
    /\ r.cert = 2
    /\ entry["loop"].cert = 1
    /\ r.certPEM # entry["loop"].certPEM

\* The active object is the one built from the valid pair <<c, k>>.
Published(c, k) == r.cert # NilPtr /\ heap[r.cert] = X509KeyPair(c, k)

\* C14 (a failed attempt does not stop the loop): after reload() returned an
\* error to the loop, the loop is back waiting for the next tick; and once an
\* error was logged, if from some point on the files hold one valid pair and
\* the store keeps running, that pair ends up published.
C14_LoopSurvivesFailure ==
    /\ (pc["loop"] = "ret" /\ err["loop"] # NoErr) ~> (pc["loop"] = "wait" \/ panicked)
    /\ \A c \in {"cert1", "cert2"} :
          LET k == IF c = "cert1" THEN "key1" ELSE "key2" IN
          (<>(logged # NoErr) /\ <>[]RunningWith(c, k)) => <>[]Published(c, k)

\* C14 witness: the loop logged a validation error in the middle of a
\* rotation and later published the pair of rotation 2.
C14_Witness ==
    /\ logged = ErrKeyPair
    /\ RunningWith("cert2", "key2")
    /\ Published("cert2", "key2")
    /\ pc["loop"] = "wait"
    /\ Len(heap) = 2

\* C15 (the first load always parses), as claimed: the reload inside New
\* never leaves the comparison by the 'unchanged' return, and New returns the
\* Reloader only with the contents it read validated and published.
C15_FirstLoadParses ==
    [][/\ (pc["new"] = "compare" /\ pc'["new"] # "compare") => pc'["new"] = "parse"
       /\ (newRet.r # "r" /\ newRet'.r = "r")
             => /\ r'.cert # NilPtr
                /\ heap'[r'.cert] = X509KeyPair(r'.certPEM, r'.keyPEM)]_vars

\* Exactly one of the two contents the loop read differs from the last
\* accepted ones it found on entry.
OneChanged(p) ==
    /\ ReadBoth(p)
    /\ BytesEqual(l[p].certPEM, entry[p].certPEM) # BytesEqual(l[p].keyPEM, entry[p].keyPEM)

\* C16 (change detection requires both files unchanged): the loop leaves the
\* comparison by the 'unchanged' return only when both contents equal the
\* stored ones, and otherwise goes on to validate; an attempt in which exactly
\* one content changed ends with the validation error and the old pointer, or
\* with the newly read combination published.
C16_BothUnchanged ==
    [][/\ (pc["loop"] = "compare" /\ pc'["loop"] # "compare")
             => IF /\ BytesEqual(l["loop"].certPEM, r.certPEM)
                   /\ BytesEqual(l["loop"].keyPEM, r.keyPEM)
                THEN pc'["loop"] = "ret" /\ err'["loop"] = NoErr
                ELSE pc'["loop"] = "parse"
       /\ (pc'["loop"] = "ret" /\ pc["loop"] # "ret" /\ OneChanged("loop"))
             => \/ /\ err'["loop"] = ErrKeyPair
                   /\ r'.cert = entry["loop"].cert
                \/ /\ err'["loop"] = NoErr
                   /\ r'.cert = l["loop"].cert
                   /\ r'.cert # entry["loop"].cert
                   /\ heap'[r'.cert] = X509KeyPair(l["loop"].certPEM, l["loop"].keyPEM)]_vars

\* C16 witness: only the key file changed, the loop validated the new
\* combination and returned the validation error.
C16_Witness ==
    /\ pc["loop"] = "ret"
    /\ ReadBoth("loop")
    /\ r.cert # NilPtr
    /\ l["loop"].certPEM = entry["loop"].certPEM
    /\ l["loop"].keyPEM # entry["loop"].keyPEM
    /\ Rotation(l["loop"].keyPEM) # 0
    /\ err["loop"] = ErrKeyPair

\* Goroutine p is inside reload().
InReload(p) == pc[p] \in {"readCert", "readKey", "compare", "parse"} \cup PublishPcs

\* C17 (single writer): at most one goroutine is inside reload() at any
\* time; the loop goroutine exists only after New's own reload has returned
\* and New has returned the Reloader.
C17_SingleWriter ==
    /\ Cardinality({p \in Reloaders : InReload(p)}) <= 1
    /\ pc["loop"] # "none" => (pc["new"] = "done" /\ newRet.r = "r")
    /\ InReload("new") => (pc["loop"] = "none" /\ ticker = "none")

\* C17 witness: the loop is about to store the pointer while one caller is
\* inside Stop() and another has called Get().
C17_Witness ==
    /\ pc["loop"] = "storePointer"
    /\ pc["new"] = "done"
    /\ pc["s1"] = "close"
    /\ got["g1"] # NoResult

\* C18 (failure reports identify the failing step): reload() returns one of
\* three errors, checked in order: 'unable to read certificate' exactly when
\* the certificate read failed (whatever the key file's state, the key is not
\* read), 'unable to read private key' exactly when the certificate was read
\* and the key read failed, the validation error only when both were read.
C18_ErrorIdentifiesStep ==
    [][\A p \in Reloaders :
         /\ (pc[p] = "readCert" /\ pc'[p] # "readCert" /\ certFile = NoFile)
               => (pc'[p] = "ret" /\ err'[p] = ErrReadCert)
         /\ (pc[p] = "readKey" /\ pc'[p] # "readKey" /\ keyFile = NoFile)
               => (pc'[p] = "ret" /\ err'[p] = ErrReadKey)
         /\ (pc'[p] = "ret" /\ pc[p] # "ret")
               => CASE err'[p] = ErrReadCert ->
                         /\ pc[p] = "readCert"
                         /\ certFile = NoFile
                         /\ l'[p].certPEM = NilBytes
                         /\ l'[p].keyPEM = NilBytes
                    [] err'[p] = ErrReadKey ->
                         /\ pc[p] = "readKey"
                         /\ keyFile = NoFile
                         /\ l'[p].certPEM # NilBytes
                         /\ l'[p].keyPEM = NilBytes
                    [] err'[p] = ErrKeyPair ->
                         /\ pc[p] = "parse"
                         /\ l'[p].certPEM # NilBytes
                         /\ l'[p].keyPEM # NilBytes
                         /\ ~X509KeyPairOK(l'[p].certPEM, l'[p].keyPEM)
                    [] err'[p] = NoErr -> pc[p] \in {"compare", "storePointer"}
                    [] OTHER -> FALSE]_vars

\* C18 witness: both files are unreadable and the loop reported the
\* certificate.
C18_Witness ==
    /\ pc["loop"] = "ret"
    /\ err["loop"] = ErrReadCert
    /\ certFile = NoFile
    /\ keyFile = NoFile
    /\ r.cert # NilPtr

\* The files are unreadable, or hold contents that fail validation and are
\* not the last accepted ones.
BadFiles ==
    \/ certFile = NoFile
    \/ keyFile = NoFile
    \/ /\ ~X509KeyPairOK(certFile, keyFile)
       /\ ~(BytesEqual(certFile, r.certPEM) /\ BytesEqual(keyFile, r.keyPEM))

\* The loop hands the error of the attempt it just ended to log.Print.
LogsError ==
    /\ pc["loop"] = "ret"
    /\ pc'["loop"] = "wait"
    /\ err["loop"] # NoErr
    /\ logged' = err["loop"]

\* C19 (a persistently bad rotation is reported on every tick): every
\* attempt of the loop that ends with an error logs that error, also when it
\* is not the first; an attempt returns nil only for unchanged or valid
\* contents; and while the files stay bad and the store keeps running, the
\* loop logs an error again and again.
C19_ReportedEveryTick ==
    /\ [][(pc["loop"] = "ret" /\ pc'["loop"] # "ret" /\ err["loop"] # NoErr)
             => LogsError]_vars
    /\ [](pc["loop"] = "ret" /\ err["loop"] = NoErr
             => /\ ReadBoth("loop")
                /\ \/ /\ BytesEqual(l["loop"].certPEM, entry["loop"].certPEM)
                      /\ BytesEqual(l["loop"].keyPEM, entry["loop"].keyPEM)
                   \/ X509KeyPairOK(l["loop"].certPEM, l["loop"].keyPEM))
    /\ <>[](BadFiles /\ newRet.r = "r" /\ r.chStop = "open") => []<><<LogsError>>_vars

\* C19 witness: the only rewrite put junk in the certificate file; the loop
\* already logged the validation error and a later attempt returned it again.
C19_Witness ==
    /\ pc["loop"] = "ret"
    /\ err["loop"] = ErrKeyPair
    /\ logged = ErrKeyPair
    /\ certFile = "junk"
    /\ l["loop"].certPEM = "junk"
    /\ writes = 1
    /\ r.cert # NilPtr

\* C20 (reloading quiesces after stop): once the stop channel is closed the
\* ticker is eventually stopped; a stopped ticker adds no tick, so at most
\* the tick already buffered is still consumed; and from some point on the
\* loop waits on an empty channel forever; the last accepted contents and the
\* active pointer, which only the stores of reload() change, are then constant.
C20_QuiescesAfterStop ==
    /\ (r.chStop = "closed") ~> (ticker = "stopped" \/ panicked)
    /\ [][ticker = "stopped" => (ticker' = "stopped" /\ tick' <= tick)]_vars
    /\ (r.chStop = "closed") ~> [](panicked \/ (pc["loop"] = "wait" /\ tick = 0))
    /\ [][Accepted(r)' # Accepted(r) => \E p \in Reloaders : pc[p] \in PublishPcs]_vars

\* C20 witness: after Stop() returned and the ticker was stopped, the loop
\* has consumed the buffered tick and is inside one more attempt.
C20_Witness ==
    /\ ticker = "stopped"
    /\ pc["s1"] = "returned"
    /\ InReload("loop")
    /\ tick = 0
    /\ r.cert # NilPtr

====
